---- MODULE Spec2Model ----
(***************************************************************************)
(* Model of aio-lib-ims-oauth:                                             *)
(*   - the local callback protocol handlers of the helpers module          *)
(*     (handleOPTIONS, handleGET, handlePOST, handleUnsupportedHttpMethod)  *)
(*   - the native-window redirect watcher (lib/main.js).                   *)
(*                                                                         *)
(* A JavaScript string is a sequence of tokens (TLA+ strings); string      *)
(* concatenation is \o.  A JavaScript value is a record                    *)
(*   [t, s, a, m, n]   t: type tag, s: string content / error message,     *)
(*                     a: array elements (strings), m: object members      *)
(*                     <<key, value>> in order, n: error name.             *)
(***************************************************************************)
EXTENDS Integers, Sequences, FiniteSets, TLC

(***************************************************************************)
(* JavaScript values                                                       *)
(***************************************************************************)
Undefined == [t |-> "undefined", s |-> <<>>, a |-> <<>>, m |-> <<>>, n |-> ""]
Null      == [t |-> "null",      s |-> <<>>, a |-> <<>>, m |-> <<>>, n |-> ""]
Str(x)    == [t |-> "string",    s |-> x,    a |-> <<>>, m |-> <<>>, n |-> ""]
Arr(x)    == [t |-> "array",     s |-> <<>>, a |-> x,    m |-> <<>>, n |-> ""]
Obj(x)    == [t |-> "object",    s |-> <<>>, a |-> <<>>, m |-> x,    n |-> ""]
Err(k, x) == [t |-> "error",     s |-> x,    a |-> <<>>, m |-> <<>>, n |-> k]

\* Array.prototype.join(','), which String(array) uses
RECURSIVE Join(_)
Join(a) ==
  IF a = <<>> THEN <<>>
  ELSE IF Len(a) = 1 THEN a[1]
  ELSE a[1] \o <<",">> \o Join(Tail(a))

\* String(v) as used by template literals and by JSON.parse on a non-string
StringOf(v) ==
  CASE v.t = "undefined" -> <<"undefined">>
    [] v.t = "null"      -> <<"null">>
    [] v.t = "string"    -> v.s
    [] v.t = "array"     -> Join(v.a)
    [] OTHER             -> <<"[object Object]">>

\* JavaScript truthiness: undefined, null and '' are falsy; arrays and objects truthy
Truthy(v) ==
  CASE v.t = "undefined" -> FALSE
    [] v.t = "null"      -> FALSE
    [] v.t = "string"    -> v.s # <<>>
    [] OTHER             -> TRUE

(***************************************************************************)
(* JSON.parse over token strings.  Tokens of JSON text: the punctuation    *)
(* { } : , the literal null and the string literals "id", "abcd", "zzzz".  *)
(* Every other token (a bare word, =, &, ...) is not JSON.                 *)
(***************************************************************************)
QId == "\"id\""
QA  == "\"abcd\""
QZ  == "\"zzzz\""

IsQuoted(tok) == tok \in {QId, QA, QZ}

Unquote(tok) ==
  CASE tok = QId -> <<"id">>
    [] tok = QA  -> <<"abcd">>
    [] tok = QZ  -> <<"zzzz">>
    [] OTHER     -> <<>>

ParseFail == [ok |-> FALSE, v |-> Undefined, rest |-> <<>>]

RECURSIVE ParseValue(_), ParseMembers(_, _)
ParseValue(s) ==
  IF s = <<>> THEN ParseFail
  ELSE IF Head(s) = "null" THEN [ok |-> TRUE, v |-> Null, rest |-> Tail(s)]
  ELSE IF IsQuoted(Head(s)) THEN [ok |-> TRUE, v |-> Str(Unquote(Head(s))), rest |-> Tail(s)]
  ELSE IF Head(s) = "{" THEN
    IF Len(s) >= 2 /\ s[2] = "}"
    THEN [ok |-> TRUE, v |-> Obj(<<>>), rest |-> SubSeq(s, 3, Len(s))]
    ELSE ParseMembers(Tail(s), <<>>)
  ELSE ParseFail

ParseMembers(s, acc) ==
  IF Len(s) < 3 \/ ~IsQuoted(s[1]) \/ s[2] # ":" THEN ParseFail
  ELSE LET r    == ParseValue(SubSeq(s, 3, Len(s)))
           acc2 == Append(acc, <<Unquote(s[1]), r.v>>)
       IN IF ~r.ok \/ r.rest = <<>> THEN ParseFail
          ELSE IF Head(r.rest) = "}"
               THEN [ok |-> TRUE, v |-> Obj(acc2), rest |-> Tail(r.rest)]
          ELSE IF Head(r.rest) = ","
               THEN ParseMembers(Tail(r.rest), acc2)
          ELSE ParseFail

\* JSON.parse(v): v is converted to a string first; [ok |-> FALSE] is a thrown SyntaxError
JSONparse(v) ==
  LET r == ParseValue(StringOf(v))
  IN IF r.ok /\ r.rest = <<>>
     THEN [ok |-> TRUE, v |-> r.v]
     ELSE [ok |-> FALSE, v |-> Err("SyntaxError", <<"Unexpected token in JSON">>)]

\* property read  value.key : the last member of that name, undefined if none;
\* [ok |-> FALSE] is the TypeError thrown by a read on null or undefined
RECURSIVE LastMember(_, _)
LastMember(m, key) ==
  IF m = <<>> THEN Undefined
  ELSE IF m[Len(m)][1] = key THEN m[Len(m)][2]
  ELSE LastMember(SubSeq(m, 1, Len(m) - 1), key)

GetProp(v, key) ==
  IF v.t \in {"null", "undefined"}
  THEN [ok |-> FALSE, v |-> Err("TypeError", <<"Cannot read property of ">> \o StringOf(v))]
  ELSE [ok |-> TRUE, v |-> LastMember(v.m, key)]

\* strict equality ===  of a value with a string
StrictEqualsString(v, str) == v.t = "string" /\ v.s = str

(***************************************************************************)
(* querystring.parse: split on &, each non-empty part on its first =; a    *)
(* repeated key collects its values in an array.  The result is kept as an *)
(* association list <<key, value>> in order of first appearance.           *)
(***************************************************************************)
IndexOf(s, tok) ==
  IF \E i \in 1..Len(s) : s[i] = tok
  THEN CHOOSE i \in 1..Len(s) : s[i] = tok /\ \A j \in 1..(i - 1) : s[j] # tok
  ELSE 0

RECURSIVE Split(_, _)
Split(s, sep) ==
  LET i == IndexOf(s, sep)
  IN IF i = 0 THEN <<s>>
     ELSE <<SubSeq(s, 1, i - 1)>> \o Split(SubSeq(s, i + 1, Len(s)), sep)

Lookup(qd, key) ==
  IF \E i \in 1..Len(qd) : qd[i][1] = key
  THEN qd[CHOOSE i \in 1..Len(qd) : qd[i][1] = key][2]
  ELSE Undefined

AddParam(qd, key, val) ==
  IF \E i \in 1..Len(qd) : qd[i][1] = key
  THEN LET i   == CHOOSE j \in 1..Len(qd) : qd[j][1] = key
           old == qd[i][2]
       IN [qd EXCEPT ![i] = <<key, IF old.t = "array"
                                   THEN Arr(Append(old.a, val))
                                   ELSE Arr(<<old.s, val>>)>>]
  ELSE Append(qd, <<key, Str(val)>>)

RECURSIVE AddParts(_, _)
AddParts(qd, parts) ==
  IF parts = <<>> THEN qd
  ELSE LET p  == Head(parts)
           eq == IndexOf(p, "=")
           k  == IF eq = 0 THEN p ELSE SubSeq(p, 1, eq - 1)
           v  == IF eq = 0 THEN <<>> ELSE SubSeq(p, eq + 1, Len(p))
       IN IF p = <<>> THEN AddParts(qd, Tail(parts))
          ELSE AddParts(AddParam(qd, k, v), Tail(parts))

QSparse(s) == AddParts(<<>>, Split(s, "&"))

\* request.url.replace(/^.*\?/, ''): the greedy match removes everything up to
\* and including the last ?; a url without ? is left as it is
StripQuery(url) ==
  IF \E i \in 1..Len(url) : url[i] = "?"
  THEN LET i == CHOOSE j \in 1..Len(url) : url[j] = "?" /\ \A k \in (j + 1)..Len(url) : url[k] # "?"
       IN SubSeq(url, i + 1, Len(url))
  ELSE url

(***************************************************************************)
(* helpers module: constants and pure helpers                              *)
(***************************************************************************)
DEFAULT_ENV == "prod"
PROTOCOL_VERSION == 2

\* a URL string is <<origin, path>> followed by whatever is appended to it
IMS_CLI_OAUTH_URL(e) ==
  IF e = "prod"
  THEN <<"https://aio-login.adobeioruntime.net", "/api/v1/web/default/applogin">>
  ELSE <<"https://aio-login.adobeioruntime.net", "/api/v1/web/default/applogin-stage">>

\* the default parameter  env = DEFAULT_ENV : an omitted argument takes the default
EnvOrDefault(e) == IF e = "omitted" THEN DEFAULT_ENV ELSE e

\* new url.URL(u).origin
Origin(u) == <<Head(u)>>

HeaderNames ==
  {"Content-Type", "Access-Control-Allow-Origin", "Access-Control-Request-Method",
   "Access-Control-Allow-Methods", "Access-Control-Allow-Headers", "Cache-Control"}

\* a response on which nothing has been called yet (statusCode 0 stands for null)
NewResponse ==
  [headers    |-> [h \in HeaderNames |-> <<>>],
   statusCode |-> 0,
   head       |-> [status |-> 0, Location |-> <<>>],
   body       |-> <<>>]

setHeader(resp, name, value) == [resp EXCEPT !.headers[name] = value]
writeHead(resp, status, loc) == [resp EXCEPT !.head = [status |-> status, Location |-> loc]]
setStatusCode(resp, status)  == [resp EXCEPT !.statusCode = status]
endWith(resp, data)          == [resp EXCEPT !.body = data]

stringToJson(value) ==
  LET r == JSONparse(value)
  IN IF r.ok THEN r.v ELSE Obj(<<>>)

\* mutant: any origin is allowed
cors_Wildcard(resp, e) ==
  LET r1 == setHeader(resp, "Content-Type", <<"text/plain">>)
      r2 == setHeader(r1, "Access-Control-Allow-Origin", <<"*">>)
      r3 == setHeader(r2, "Access-Control-Request-Method", <<"*">>)
      r4 == setHeader(r3, "Access-Control-Allow-Methods", <<"OPTIONS, POST">>)
  IN setHeader(r4, "Access-Control-Allow-Headers", <<"*">>)

cors(resp, e) ==
  LET r1 == setHeader(resp, "Content-Type", <<"text/plain">>)
      r2 == setHeader(r1, "Access-Control-Allow-Origin", Origin(IMS_CLI_OAUTH_URL(EnvOrDefault(e))))
      r3 == setHeader(r2, "Access-Control-Request-Method", <<"*">>)
      r4 == setHeader(r3, "Access-Control-Allow-Methods", <<"OPTIONS, POST">>)
  IN setHeader(r4, "Access-Control-Allow-Headers", <<"*">>)

\* mutant: the code is parsed whatever its type
codeTransform_AlwaysParse(code, codeType) == JSONparse(code)

\* mutant: the code is handed back unparsed whatever its type
codeTransform_NoParse(code, codeType) == [ok |-> TRUE, v |-> code]

\* [ok |-> FALSE, v |-> error] is the exception JSON.parse throws
codeTransform(code, codeType) ==
  IF StrictEqualsString(codeType, <<"access_token">>)
  THEN JSONparse(code)
  ELSE [ok |-> TRUE, v |-> code]

\* createJsonResponse({ redirect, message, error = false })
createJsonResponse(redirect, message, error) ==
  [protocol_version |-> PROTOCOL_VERSION, redirect |-> redirect, error |-> error, message |-> message]

\* JSON.stringify of the response envelope: a member whose value is undefined is left out
Quote(str) == <<"\"">> \o str \o <<"\"">>
JSONstringifyEnvelope(j) ==
  <<"{", "\"protocol_version\"", ":", IF j.protocol_version = 2 THEN "2" ELSE "?">>
    \o (IF j.redirect.t = "undefined" THEN <<>>
        ELSE <<",", "\"redirect\"", ":">> \o Quote(j.redirect.s))
    \o <<",", "\"error\"", ":", IF j.error THEN "true" ELSE "false">>
    \o (IF j.message.t = "undefined" THEN <<>>
        ELSE <<",", "\"message\"", ":">> \o Quote(j.message.s))
    \o <<"}">>

ErrorMessage == <<"An error occurred in the cli.">>
SignedInUrl(e) == IMS_CLI_OAUTH_URL(EnvOrDefault(e)) \o <<"/signed-in">>
ErrorUrl(e)    == IMS_CLI_OAUTH_URL(EnvOrDefault(e)) \o <<"/error?message=">> \o ErrorMessage

(***************************************************************************)
(* Promises: settle once; a later resolve or reject is ignored             *)
(***************************************************************************)
PendingPromise == [status |-> "pending", value |-> Undefined]
Settle(p, status, v) == IF p.status = "pending" THEN [status |-> status, value |-> v] ELSE p

(***************************************************************************)
(* The handlers.  Each operator gives the effect of the handler's code on  *)
(* the response, the returned promise and the ordered log of calls made    *)
(* (calls on the response, resolve, reject, done).                         *)
(***************************************************************************)
\* queryData.code && state.id === id : the right operand is evaluated only when
\* the code is truthy; reading .id of null throws
IdRead(queryData) == GetProp(stringToJson(Lookup(queryData, <<"state">>)), <<"id">>)

ConditionThrows(queryData) ==
  Truthy(Lookup(queryData, <<"code">>)) /\ ~IdRead(queryData).ok

\* mutant: the state id is read but not compared with the expected id
ConditionHolds_NoIdCheck(queryData, expectedId) ==
  /\ Truthy(Lookup(queryData, <<"code">>))
  /\ IdRead(queryData).ok

ConditionHolds(queryData, expectedId) ==
  /\ Truthy(Lookup(queryData, <<"code">>))
  /\ IdRead(queryData).ok
  /\ StrictEqualsString(IdRead(queryData).v, expectedId)

Transformed(queryData) ==
  codeTransform(Lookup(queryData, <<"code">>), Lookup(queryData, <<"code_type">>))

RejectionError(queryData) ==
  Err("Error", <<"error code=">> \o StringOf(Lookup(queryData, <<"code">>)))

\* mutant: the success response is sent before the code is transformed
handleGET_RespondFirst(url, resp, expectedId, e, p) ==
  LET r0        == cors(resp, e)
      queryData == QSparse(StripQuery(url))
  IN IF ConditionThrows(queryData)
     THEN [response |-> r0,
           promise  |-> Settle(p, "rejected", IdRead(queryData).v),
           calls    |-> <<"cors">>]
     ELSE IF ConditionHolds(queryData, expectedId)
     THEN [response |-> endWith(writeHead(setHeader(r0, "Cache-Control", <<"private, no-cache">>),
                                          302, SignedInUrl(e)), <<>>),
           promise  |-> Settle(p, IF Transformed(queryData).ok THEN "resolved" ELSE "rejected",
                               Transformed(queryData).v),
           calls    |-> IF Transformed(queryData).ok
                        THEN <<"cors", "setHeader", "writeHead", "end", "resolve", "done">>
                        ELSE <<"cors", "setHeader", "writeHead", "end">>]
     ELSE [response |-> endWith(writeHead(setHeader(setStatusCode(r0, 400),
                                                   "Cache-Control", <<"private, no-cache">>),
                                          302, ErrorUrl(e)), <<>>),
           promise  |-> Settle(p, "rejected", RejectionError(queryData)),
           calls    |-> <<"cors", "statusCode", "setHeader", "writeHead", "end", "reject", "done">>]

\* handleGET: the promise executor, run synchronously by the call.  An exception
\* thrown inside the executor rejects the promise and abandons the rest.
handleGET(url, resp, expectedId, e, p) ==
  LET r0        == cors(resp, e)
      queryData == QSparse(StripQuery(url))
  IN IF ConditionThrows(queryData)
     THEN [response |-> r0,
           promise  |-> Settle(p, "rejected", IdRead(queryData).v),
           calls    |-> <<"cors">>]
     ELSE IF ConditionHolds(queryData, expectedId)
     THEN IF ~Transformed(queryData).ok
          THEN [response |-> r0,
                promise  |-> Settle(p, "rejected", Transformed(queryData).v),
                calls    |-> <<"cors">>]
          ELSE [response |-> endWith(writeHead(setHeader(r0, "Cache-Control", <<"private, no-cache">>),
                                               302, SignedInUrl(e)), <<>>),
                promise  |-> Settle(p, "resolved", Transformed(queryData).v),
                calls    |-> <<"cors", "resolve", "setHeader", "writeHead", "end", "done">>]
     ELSE [response |-> endWith(writeHead(setHeader(setStatusCode(r0, 400),
                                                   "Cache-Control", <<"private, no-cache">>),
                                          302, ErrorUrl(e)), <<>>),
           promise  |-> Settle(p, "rejected", RejectionError(queryData)),
           calls    |-> <<"cors", "statusCode", "setHeader", "writeHead", "end", "reject", "done">>]

\* handlePOST: the promise executor (cors, body = '', the two listeners registered)
handlePOST(resp, e) == [response |-> cors(resp, e), body |-> <<>>, calls |-> <<"cors">>]

\* mutant: the new chunk is put in front of the body
onData_Prepend(bodySoFar, data) == data \o bodySoFar

\* request.on('data'): body += data.toString()
onData(bodySoFar, data) == bodySoFar \o data

\* request.on('end'): an async function; an exception thrown in it rejects the
\* promise of that function, which nobody holds (unhandled), and leaves the
\* promise returned by handlePOST as it was
onEnd(bodyText, resp, expectedId, e, p) ==
  LET queryData == QSparse(bodyText)
  IN IF ConditionThrows(queryData)
     THEN [response |-> resp, promise |-> p, calls |-> <<>>, unhandled |-> IdRead(queryData).v]
     ELSE IF ConditionHolds(queryData, expectedId)
     THEN IF ~Transformed(queryData).ok
          THEN [response |-> resp, promise |-> p, calls |-> <<>>,
                unhandled |-> Transformed(queryData).v]
          ELSE [response  |-> endWith(setStatusCode(resp, 200),
                                JSONstringifyEnvelope(
                                  createJsonResponse(Str(SignedInUrl(e)), Undefined, FALSE))),
                promise   |-> Settle(p, "resolved", Transformed(queryData).v),
                calls     |-> <<"resolve", "statusCode", "end", "done">>,
                unhandled |-> Undefined]
     ELSE [response  |-> endWith(setStatusCode(resp, 400),
                           JSONstringifyEnvelope(
                             createJsonResponse(Str(ErrorUrl(e)), Str(ErrorMessage), TRUE))),
           promise   |-> Settle(p, "rejected", RejectionError(queryData)),
           calls     |-> <<"statusCode", "end", "reject", "done">>,
           unhandled |-> Undefined]

\* handleOPTIONS: cors(response, env).end()
handleOPTIONS(resp, e) == [response |-> endWith(cors(resp, e), <<>>), calls |-> <<"cors", "end">>]

\* mutant: the unsupported method is answered like any other client error
handleUnsupportedHttpMethod_Status400(resp, e) ==
  [response |-> endWith(cors(setStatusCode(resp, 400), e),
                        <<"Supported HTTP methods are OPTIONS, GET, POST">>),
   calls    |-> <<"statusCode", "cors", "end">>]

\* handleUnsupportedHttpMethod: statusCode = 405, cors(response, env).end(text)
handleUnsupportedHttpMethod(resp, e) ==
  [response |-> endWith(cors(setStatusCode(resp, 405), e),
                        <<"Supported HTTP methods are OPTIONS, GET, POST">>),
   calls    |-> <<"statusCode", "cors", "end">>]

(***************************************************************************)
(* State                                                                    *)
(***************************************************************************)
VARIABLES
  request,    \* the incoming request: [method, url, stream]  (stream: the body to arrive)
  id,         \* the expected session id handed to the handler
  env,        \* the env argument: "prod", "stage" or "omitted"
  pc,         \* "start", "reading" (handlePOST waits for the body), "done"
  body,       \* handlePOST's accumulated body
  pending,    \* the part of the request body not yet delivered as data events
  response,   \* the response object
  promise,    \* the promise returned by handleGET / handlePOST
  calls,      \* ordered log of the calls made: on the response, resolve, reject, done
  unhandled,  \* the exception thrown inside handlePOST's async end listener, if any
  argv,       \* native window: process.argv
  phase,      \* native window: "load", "ready", "open" (window created), "closed", "exited"
  win,        \* native window: the module variable win ("window" or "null")
  stdout,     \* native window: what was written to standard output, one entry per write
  stderr,     \* native window: what was written to standard error, one entry per write
  exitCode,   \* native window: the status given to app.exit, -1 while none
  uncaught,   \* native window: exceptions thrown out of an event listener
  navs,       \* native window: number of navigation events delivered
  lastUrl,    \* native window: the target url of the last navigation event
  matched,    \* native window: a delivered navigation URL started with the callback URL
  tobj,       \* codeTransform: the value given to JSON.stringify, undefined if none
  tcode,      \* codeTransform: the code argument
  ttype,      \* codeTransform: the codeType argument
  tresult,    \* codeTransform: what the call returned or threw
  tpc         \* codeTransform: "start", "ready" (arguments at hand), "returned"

hvars == <<request, id, env, pc, body, pending, response, promise, calls, unhandled>>
wvars == <<argv, phase, win, stdout, stderr, exitCode, uncaught, navs, lastUrl, matched>>
tvars == <<tobj, tcode, ttype, tresult, tpc>>
vars  == <<hvars, wvars, tvars>>

(***************************************************************************)
(* Inputs of the handlers                                                   *)
(***************************************************************************)
MaxChunk == 3    \* most tokens one data event carries

JsonIdA   == <<"{", QId, ":", QA, "}">>       \* {"id":"abcd"}
PartLeft  == <<"{", QId, ":", QZ>>            \* {"id":"zzzz"
PartRight == <<QId, ":", QA, "}">>            \* "id":"abcd"}

\* the values given to each parameter, in order of appearance (none, one, repeated)
CodeParams  == { <<>>, << <<>> >>, << <<"abc">> >>, <<JsonIdA>>,
                 << <<>>, <<>> >>, << <<"abc">>, <<"abc">> >> }
TypeParams  == { <<>>, << <<"access_token">> >>, << <<"auth_code">> >>,
                 << <<"access_token">>, <<"access_token">> >> }
StateParams == { <<>>, <<JsonIdA>>, << <<"null">> >>, << <<"{">> >>,
                 <<JsonIdA, JsonIdA>>, <<PartLeft, PartRight>> }
Ids         == { <<"abcd">>, <<"zzzz">> }
Envs        == { "prod", "stage", "omitted" }
UrlPrefixes == { <<"/", "?">>, <<"/">> }

RECURSIVE JoinWith(_, _)
JoinWith(parts, sep) ==
  IF parts = <<>> THEN <<>>
  ELSE IF Len(parts) = 1 THEN parts[1]
  ELSE parts[1] \o <<sep>> \o JoinWith(Tail(parts), sep)

FieldsOf(key, values) == [i \in 1..Len(values) |-> <<key, "=">> \o values[i]]

Queries ==
  { JoinWith(FieldsOf("code", c) \o FieldsOf("code_type", t) \o FieldsOf("state", s), "&") :
      c \in CodeParams, t \in TypeParams, s \in StateParams }

Requests ==
       { [method |-> "GET", url |-> u \o q, stream |-> <<>>] : u \in UrlPrefixes, q \in Queries }
  \cup { [method |-> "POST", url |-> <<"/">>, stream |-> q] : q \in Queries }
  \cup { [method |-> m, url |-> <<"/">>, stream |-> <<>>] : m \in {"OPTIONS", "PUT"} }
  \cup { [method |-> m, url |-> <<"/", "?">> \o q, stream |-> q] :
            m \in {"PUT", "DELETE"}, q \in Queries }

WatcherIdle ==
  /\ argv = <<>> /\ phase = "idle" /\ win = "null" /\ stdout = <<>> /\ stderr = <<>>
  /\ exitCode = -1 /\ uncaught = <<>> /\ navs = 0 /\ lastUrl = <<>> /\ matched = FALSE

TransformIdle ==
  /\ tobj = Undefined /\ tcode = Undefined /\ ttype = Undefined
  /\ tresult = [ok |-> TRUE, v |-> Undefined] /\ tpc = "idle"

Init ==
  /\ request \in Requests
  /\ id \in Ids
  /\ env \in Envs
  /\ pc = "start"
  /\ body = <<>>
  /\ pending = request.stream
  /\ response = NewResponse
  /\ promise = PendingPromise
  /\ calls = <<>>
  /\ unhandled = Undefined
  /\ WatcherIdle
  /\ TransformIdle

(***************************************************************************)
(* Actions of the handlers                                                  *)
(***************************************************************************)
CallOPTIONS ==
  /\ pc = "start" /\ request.method = "OPTIONS"
  /\ LET r == handleOPTIONS(response, env)
     IN response' = r.response /\ calls' = calls \o r.calls
  /\ pc' = "done"
  /\ UNCHANGED <<request, id, env, body, pending, promise, unhandled, wvars, tvars>>

CallUnsupported ==
  /\ pc = "start" /\ request.method \notin {"OPTIONS", "GET", "POST"}
  /\ LET r == handleUnsupportedHttpMethod(response, env)
     IN response' = r.response /\ calls' = calls \o r.calls
  /\ pc' = "done"
  /\ UNCHANGED <<request, id, env, body, pending, promise, unhandled, wvars, tvars>>

CallGET ==
  /\ pc = "start" /\ request.method = "GET"
  /\ LET r == handleGET(request.url, response, id, env, promise)
     IN response' = r.response /\ promise' = r.promise /\ calls' = calls \o r.calls
  /\ pc' = "done"
  /\ UNCHANGED <<request, id, env, body, pending, unhandled, wvars, tvars>>

CallPOST ==
  /\ pc = "start" /\ request.method = "POST"
  /\ LET r == handlePOST(response, env)
     IN response' = r.response /\ body' = r.body /\ calls' = calls \o r.calls
  /\ pc' = "reading"
  /\ UNCHANGED <<request, id, env, pending, promise, unhandled, wvars, tvars>>

\* a data event carrying the next 1..MaxChunk tokens of the body
DataEvent ==
  /\ pc = "reading" /\ pending # <<>>
  /\ \E k \in 1..MaxChunk :
       /\ k <= Len(pending)
       /\ body' = onData(body, SubSeq(pending, 1, k))
       /\ pending' = SubSeq(pending, k + 1, Len(pending))
  /\ UNCHANGED <<request, id, env, pc, response, promise, calls, unhandled, wvars, tvars>>

\* the end event, once the whole body has been delivered
EndEvent ==
  /\ pc = "reading" /\ pending = <<>>
  /\ LET r == onEnd(body, response, id, env, promise)
     IN /\ response' = r.response /\ promise' = r.promise
        /\ calls' = calls \o r.calls /\ unhandled' = r.unhandled
  /\ pc' = "done"
  /\ UNCHANGED <<request, id, env, body, pending, wvars, tvars>>

Next == CallOPTIONS \/ CallUnsupported \/ CallGET \/ CallPOST \/ DataEvent \/ EndEvent

Spec == Init /\ [][Next]_vars

(***************************************************************************)
(* Native-window redirect watcher (lib/main.js)                             *)
(*                                                                         *)
(* app.exit(code) ends the process: while the module is loading no window  *)
(* exists and the process is gone at once; once the window exists the      *)
(* window is destroyed first, which delivers its closed event, and then    *)
(* the process ends (phase "exiting", then "exited").                      *)
(* An exception thrown out of an event listener is an uncaught exception   *)
(* of the main process: nothing is written through _failApp and app.exit   *)
(* is not called.                                                          *)
(***************************************************************************)
MaxNav == 3    \* most navigation events delivered to one window

IsPrefix(p, s) == Len(p) <= Len(s) /\ SubSeq(s, 1, Len(p)) = p

\* argv[idx] of getArg (JavaScript indexes from 0); undefined when absent
ArgAt(args, idx) == IF Len(args) > idx THEN Str(args[idx + 1]) ELSE Undefined

\* mutant: the callback URL may occur anywhere in the url
startsWith_Anywhere(url, callbackUrl) ==
  \E i \in 0..Len(url) : IsPrefix(StringOf(callbackUrl), SubSeq(url, i + 1, Len(url)))

\* url.startsWith(callbackUrl): the argument is converted to a string
startsWith(url, callbackUrl) == IsPrefix(StringOf(callbackUrl), url)

\* /code=([^&]*)/.exec(url): the first place where the text code= occurs, and
\* the text from there up to the next & ; [found |-> FALSE] is the null result
EndsWithCode(tok) == tok \in {"code", "auth_code"}

CodeMatchAt(url, i) == i < Len(url) /\ EndsWithCode(url[i]) /\ url[i + 1] = "="

RECURSIVE UpToAmp(_)
UpToAmp(s) ==
  IF s = <<>> \/ Head(s) = "&" THEN <<>> ELSE <<Head(s)>> \o UpToAmp(Tail(s))

execCode(url) ==
  IF \E i \in 1..Len(url) : CodeMatchAt(url, i)
  THEN LET i == CHOOSE j \in 1..Len(url) :
                  CodeMatchAt(url, j) /\ \A k \in 1..(j - 1) : ~CodeMatchAt(url, k)
       IN [found |-> TRUE, group |-> UpToAmp(SubSeq(url, i + 2, Len(url)))]
  ELSE [found |-> FALSE, group |-> <<>>]

\* var code = (raw_code && raw_code.length > 1) ? raw_code[1] : null
extractCode(url) == IF execCode(url).found THEN Str(execCode(url).group) ELSE Null

\* mutant: the window reference is not cleared on a callback url
handleCallback_KeepWin(url, callbackUrl, w) ==
  IF ~startsWith(url, callbackUrl)
  THEN [win |-> w, out |-> <<>>, err |-> <<>>, exit |-> -1, thrown |-> <<>>]
  ELSE IF Truthy(extractCode(url))
  THEN [win |-> w, out |-> <<extractCode(url).s>>, err |-> <<>>, exit |-> 0, thrown |-> <<>>]
  ELSE [win |-> w, out |-> <<>>, err |-> <<>>, exit |-> -1,
        thrown |-> <<Err("ReferenceError", <<"error is not defined">>)>>]

\* mutant: the window reference is cleared before the prefix test
handleCallback_ClearFirst(url, callbackUrl, w) ==
  IF ~startsWith(url, callbackUrl)
  THEN [win |-> "null", out |-> <<>>, err |-> <<>>, exit |-> -1, thrown |-> <<>>]
  ELSE IF Truthy(extractCode(url))
  THEN [win |-> "null", out |-> <<extractCode(url).s>>, err |-> <<>>, exit |-> 0, thrown |-> <<>>]
  ELSE [win |-> "null", out |-> <<>>, err |-> <<>>, exit |-> -1,
        thrown |-> <<Err("ReferenceError", <<"error is not defined">>)>>]

\* handleCallback(url): what it does to win, what it writes, the status it exits
\* with (-1: app.exit not called) and the exception it throws, if any.
\* The identifier  error  read at the else-if is declared nowhere: reading it
\* throws a ReferenceError.
handleCallback(url, callbackUrl, w) ==
  IF ~startsWith(url, callbackUrl)
  THEN [win |-> w, out |-> <<>>, err |-> <<>>, exit |-> -1, thrown |-> <<>>]
  ELSE IF Truthy(extractCode(url))
  THEN [win |-> "null", out |-> <<extractCode(url).s>>, err |-> <<>>, exit |-> 0, thrown |-> <<>>]
  ELSE [win |-> "null", out |-> <<>>, err |-> <<>>, exit |-> -1,
        thrown |-> <<Err("ReferenceError", <<"error is not defined">>)>>]

\* the closed listener: if (win) _failApp(...)
onClosed(w) ==
  IF w # "null"
  THEN [err |-> << <<"User terminated the browser without authenticating">> >>, exit |-> 1]
  ELSE [err |-> <<>>, exit |-> -1]

AuthUrls     == { <<"https://ims", "/login">>, <<"https://ims-stage", "/login">> }
CallbackUrls == { <<"https://cb">>, <<"https://cb", "/done">> }
Argvs ==
  LET base == << <<"electron">>, <<"main.js">> >>
  IN {base} \cup { Append(base, a) : a \in AuthUrls }
            \cup { base \o <<a, c>> : a \in AuthUrls, c \in CallbackUrls }

NavUrls ==
  { <<"https://ims", "/login">>,
    <<"https://ims", "/login", "?", "redirect_uri", "=", "https://cb", "&", "code", "=", "abc">>,
    <<"https://cb", "?", "code", "=", "abc">>,
    <<"https://cb", "/done", "?", "state", "=", "s", "&", "code", "=", "xyz", "&", "x", "=", "y">>,
    <<"https://cb", "/done", "?", "code", "=", "&", "state", "=", "s">>,
    <<"https://cb", "?", "error", "=", "access_denied">>,
    <<"https://cb", "/done">> }

HandlersIdle ==
  /\ request = [method |-> "NONE", url |-> <<>>, stream |-> <<>>]
  /\ id = <<>> /\ env = "omitted" /\ pc = "idle" /\ body = <<>> /\ pending = <<>>
  /\ response = NewResponse /\ promise = PendingPromise /\ calls = <<>>
  /\ unhandled = Undefined

WinInit ==
  /\ argv \in Argvs
  /\ phase = "load"
  /\ win = "null"
  /\ stdout = <<>> /\ stderr = <<>>
  /\ exitCode = -1
  /\ uncaught = <<>>
  /\ navs = 0
  /\ lastUrl = <<>>
  /\ matched = FALSE
  /\ HandlersIdle
  /\ TransformIdle

\* mutant: a missing argument is reported but the process goes on to 'ready'
LoadModule_NoExit ==
  /\ phase = "load"
  /\ IF ArgAt(argv, 2) = Undefined
     THEN stderr' = Append(stderr, <<"Missing authentication URL">>) /\ exitCode' = 1
     ELSE IF ArgAt(argv, 3) = Undefined
     THEN stderr' = Append(stderr, <<"Missing callback URL">>) /\ exitCode' = 1
     ELSE UNCHANGED <<stderr, exitCode>>
  /\ phase' = "ready"
  /\ UNCHANGED <<argv, win, stdout, uncaught, navs, lastUrl, matched, hvars, tvars>>

\* the module is loaded: the two getArg calls, then app.on('ready', createWindow)
LoadModule ==
  /\ phase = "load"
  /\ IF ArgAt(argv, 2) = Undefined
     THEN stderr' = Append(stderr, <<"Missing authentication URL">>)
          /\ exitCode' = 1 /\ phase' = "exited"
     ELSE IF ArgAt(argv, 3) = Undefined
     THEN stderr' = Append(stderr, <<"Missing callback URL">>)
          /\ exitCode' = 1 /\ phase' = "exited"
     ELSE UNCHANGED <<stderr, exitCode>> /\ phase' = "ready"
  /\ UNCHANGED <<argv, win, stdout, uncaught, navs, lastUrl, matched, hvars, tvars>>

\* app 'ready': createWindow
createWindow ==
  /\ phase = "ready"
  /\ win' = "window"
  /\ phase' = "open"
  /\ UNCHANGED <<argv, stdout, stderr, exitCode, uncaught, navs, lastUrl, matched, hvars, tvars>>

\* will-navigate, will-redirect or did-get-redirect-request with the target url
NavigationEvent ==
  /\ phase = "open" /\ navs < MaxNav
  /\ \E kind \in {"will-navigate", "will-redirect", "did-get-redirect-request"},
        url \in NavUrls :
       LET r == handleCallback(url, ArgAt(argv, 3), win)
       IN /\ win' = r.win
          /\ stdout' = stdout \o r.out
          /\ stderr' = stderr \o r.err
          /\ uncaught' = uncaught \o r.thrown
          /\ exitCode' = IF r.exit # -1 THEN r.exit ELSE exitCode
          /\ phase' = IF r.exit # -1 THEN "exiting" ELSE phase
          /\ lastUrl' = url
          /\ matched' = (matched \/ IsPrefix(argv[4], url))
  /\ navs' = navs + 1
  /\ UNCHANGED <<argv, hvars, tvars>>

\* the window's closed event: the user closed it, or app.exit destroyed it
ClosedEvent ==
  /\ phase \in {"open", "exiting"}
  /\ LET r == onClosed(win)
     IN /\ stderr' = stderr \o r.err
        /\ exitCode' = IF r.exit # -1 THEN r.exit ELSE exitCode
        /\ phase' = IF r.exit # -1 \/ phase = "exiting" THEN "exited" ELSE "closed"
  /\ UNCHANGED <<argv, win, stdout, uncaught, navs, lastUrl, matched, hvars, tvars>>

WinNext == LoadModule \/ createWindow \/ NavigationEvent \/ ClosedEvent

WinSpec == WinInit /\ [][WinNext]_vars

(***************************************************************************)
(* codeTransform on its own: the call of the unit test                     *)
(*   codeTransform(JSON.stringify(code), 'access_token')                   *)
(* and calls with a code and a codeType taken from a query string.         *)
(***************************************************************************)
MaxMembers == 2    \* most members of an object given to JSON.stringify

\* the string literal of JSON text for a string
QuoteToken(str) ==
  CASE str = <<"id">>   -> QId
    [] str = <<"abcd">> -> QA
    [] str = <<"zzzz">> -> QZ

\* JSON.stringify(v) for null, strings and objects of them
RECURSIVE JSONstringify(_), StringifyMembers(_)
JSONstringify(v) ==
  CASE v.t = "null"   -> <<"null">>
    [] v.t = "string" -> <<QuoteToken(v.s)>>
    [] OTHER          -> <<"{">> \o StringifyMembers(v.m) \o <<"}">>

StringifyMembers(m) ==
  IF m = <<>> THEN <<>>
  ELSE <<QuoteToken(m[1][1]), ":">> \o JSONstringify(m[1][2])
         \o (IF Len(m) = 1 THEN <<>> ELSE <<",">> \o StringifyMembers(Tail(m)))

JsonKeys    == { <<"id">>, <<"abcd">>, <<"zzzz">> }
JsonScalars == {Null} \cup { Str(k) : k \in JsonKeys }
JsonInner   == JsonScalars \cup { Obj(<<>>), Obj(<< <<<<"id">>, Str(<<"abcd">>)>> >>),
                                  Obj(<< <<<<"zzzz">>, Null>>, <<<<"id">>, Obj(<<>>)>> >>) }

\* objects of up to MaxMembers members; an object has no two members of one name
JsonObjects ==
  { Obj(m) : m \in { mm \in UNION { [1..n -> JsonKeys \X JsonInner] : n \in 0..MaxMembers } :
                       \A i, j \in 1..Len(mm) : i # j => mm[i][1] # mm[j][1] } }

JsonValues == JsonScalars \cup JsonObjects

\* code and code_type as querystring.parse gives them: absent, a string, repeated
TransformCodes ==
  { Undefined, Str(<<>>), Str(<<"abc">>), Str(JsonIdA), Str(<<"{">>), Arr(<< <<"abc">>, <<"abc">> >>) }
TransformTypes ==
  { Undefined, Str(<<"access_token">>), Str(<<"auth_code">>), Str(<<>>),
    Arr(<< <<"access_token">>, <<"access_token">> >>) }

TransformInit ==
  /\ tobj \in JsonValues \cup {Undefined}
  /\ ttype \in TransformTypes
  /\ IF tobj = Undefined
     THEN tcode \in TransformCodes /\ tpc = "ready"
     ELSE tcode = Undefined /\ tpc = "start"
  /\ tresult = [ok |-> TRUE, v |-> Undefined]
  /\ HandlersIdle
  /\ WatcherIdle

\* the argument JSON.stringify(code) is evaluated
Stringify ==
  /\ tpc = "start"
  /\ tcode' = Str(JSONstringify(tobj))
  /\ tpc' = "ready"
  /\ UNCHANGED <<tobj, ttype, tresult, hvars, wvars>>

CallCodeTransform ==
  /\ tpc = "ready"
  /\ tresult' = codeTransform(tcode, ttype)
  /\ tpc' = "returned"
  /\ UNCHANGED <<tobj, tcode, ttype, hvars, wvars>>

TransformNext == Stringify \/ CallCodeTransform

TransformSpec == TransformInit /\ [][TransformNext]_vars

(***************************************************************************)
(* Properties of the handlers.  The payload is what the request carries,   *)
(* read off the request itself.                                            *)
(***************************************************************************)
Payload ==
  IF request.method = "GET" THEN QSparse(StripQuery(request.url)) ELSE QSparse(request.stream)

PCode  == Lookup(Payload, <<"code">>)
PType  == Lookup(Payload, <<"code_type">>)
PState == Lookup(Payload, <<"state">>)

\* the handler was given the request and has run to its end
HandlerDone == pc = "done" /\ request.method \in {"GET", "POST"}

\* the JSON-decoded state is an object whose id is the string x
StateIdIs(x) ==
  /\ JSONparse(PState).ok
  /\ JSONparse(PState).v.t = "object"
  /\ LastMember(JSONparse(PState).v.m, <<"id">>) = Str(x)

\* the code parameter is a non-empty string or is repeated (an array, always truthy)
CodeTruthy == (PCode.t = "string" /\ PCode.s # <<>>) \/ PCode.t = "array"

IsAccessToken == PType = Str(<<"access_token">>)

CountOf(log, what) == Cardinality({i \in 1..Len(log) : log[i] = what})

\* C1 as stated: the handler ends in Success iff the request carries a
\* non-empty code (a code parameter that is truthy once parsed) and the decoded
\* state's id equals the expected id.
C1_Original ==
  HandlerDone =>
    (promise.status = "resolved" <=> (CodeTruthy /\ StateIdIs(id)))

\* C1 amended: the promise is resolved only by a handler that has run, and it
\* ends resolved iff the parsed code parameter is truthy (a non-empty string,
\* or a repeated parameter), the decoded state's id equals the expected id and,
\* when code_type is access_token, the code is valid JSON.
C1_SuccessIff ==
  /\ promise.status = "resolved" => HandlerDone
  /\ HandlerDone =>
       (promise.status = "resolved" <=>
          (CodeTruthy /\ StateIdIs(id) /\ (IsAccessToken => JSONparse(PCode).ok)))

C1_Witness ==
  /\ HandlerDone /\ request.method = "POST" /\ promise.status = "resolved"
  /\ IsAccessToken /\ StateIdIs(id)

\* C2 as stated: whenever the decoded state's id is not the expected id, the
\* promise is rejected with Error('error code=<code>') and the status is 400.
C2_Original ==
  (HandlerDone /\ ~StateIdIs(id)) =>
    /\ promise = [status |-> "rejected",
                  value  |-> Err("Error", <<"error code=">> \o StringOf(PCode))]
    /\ response.statusCode = 400

\* C3 as stated: done is called exactly once per request, after response.end.
C3_Original ==
  /\ \A j \in 1..Len(calls) :
       calls[j] = "done" => \E i \in 1..(j - 1) : calls[i] = "end"
  /\ HandlerDone => CountOf(calls, "done") = 1

\* C4: a valid payload (truthy code, matching state id, and a code that is JSON
\* when declared an access token) resolves to the code, JSON-parsed for an
\* access token and unchanged otherwise; GET answers 302 to {base}/signed-in,
\* POST answers 200 with the JSON envelope naming that redirect.
C4_ValidPayload ==
  CodeTruthy /\ StateIdIs(id) /\ (IsAccessToken => JSONparse(PCode).ok)

C4_BaseUrl ==
  IF env = "stage"
  THEN <<"https://aio-login.adobeioruntime.net", "/api/v1/web/default/applogin-stage">>
  ELSE <<"https://aio-login.adobeioruntime.net", "/api/v1/web/default/applogin">>

C4_ValidResolves ==
  (HandlerDone /\ C4_ValidPayload) =>
    /\ promise = [status |-> "resolved",
                  value  |-> IF IsAccessToken THEN JSONparse(PCode).v ELSE PCode]
    /\ request.method = "GET" =>
         /\ response.head = [status |-> 302, Location |-> C4_BaseUrl \o <<"/signed-in">>]
         /\ response.statusCode # 400
         /\ CountOf(calls, "end") = 1
    /\ request.method = "POST" =>
         /\ response.statusCode = 200
         /\ response.body =
              <<"{", "\"protocol_version\"", ":", "2", ",", "\"redirect\"", ":", "\"">>
                \o C4_BaseUrl \o <<"/signed-in", "\"", ",", "\"error\"", ":", "false", "}">>
         /\ CountOf(calls, "end") = 1

C4_Witness ==
  /\ HandlerDone /\ C4_ValidPayload /\ IsAccessToken
  /\ request.method = "GET" /\ env = "stage" /\ promise.value.t = "object"

\* C9: handlePOST's body is the concatenation, in order, of the data received;
\* until the end event nothing is decided: the promise is pending, the
\* response untouched beyond the CORS headers, done not called.
C9_BodyBuffered ==
  /\ (request.method = "POST" /\ pc \in {"reading", "done"}) => body \o pending = request.stream
  /\ (request.method = "POST" /\ pc = "done") => body = request.stream
  /\ pc = "reading" =>
       /\ promise.status = "pending"
       /\ calls = <<"cors">>
       /\ response.statusCode = 0 /\ response.body = <<>> /\ response.head.status = 0
       /\ unhandled = Undefined

\* a partial body that would already validate, with more of the body to come
C9_Witness ==
  /\ pc = "reading" /\ pending # <<>> /\ body # <<>>
  /\ ConditionHolds(QSparse(body), id)
  /\ promise.status = "pending"

\* C10 as stated: with a matching state id, code_type access_token and a code
\* that is not JSON, both handlers reject the returned promise with the parse error.
C10_Original ==
  (HandlerDone /\ CodeTruthy /\ StateIdIs(id) /\ IsAccessToken /\ ~JSONparse(PCode).ok) =>
    /\ promise.status = "rejected"
    /\ promise.value.n = "SyntaxError"

(***************************************************************************)
(* Properties of the native-window watcher.  An outcome is reported by a   *)
(* write to standard output (success) or to standard error (failure).      *)
(***************************************************************************)
Reports  == Len(stdout) + Len(stderr)
RunEnded == phase \in {"closed", "exited"}

\* the closed event of the window is being handled in this step
ClosedStep == phase \in {"open", "exiting"} /\ phase' \in {"closed", "exited"}

\* the url has no code= followed by a value
NoCodeIn(url) ==
  ~\E i \in 1..Len(url) :
     /\ url[i] = "code" /\ i + 2 <= Len(url)
     /\ url[i + 1] = "=" /\ url[i + 2] # "&"

UserTerminated == <<"User terminated the browser without authenticating">>

\* C5 as stated: never more than one outcome is reported, and exactly one
\* has been reported once the run has ended.
C5_Original ==
  /\ Reports <= 1
  /\ RunEnded => Reports = 1

\* C6 as stated: after a navigation to a url that starts with the callback url
\* and has no code, a failure naming that url has been written and the exit
\* status is 1.
C6_Original ==
  (navs > 0 /\ IsPrefix(argv[4], lastUrl) /\ NoCodeIn(lastUrl)) =>
    /\ \E i \in 1..Len(stderr) :
         stderr[i] = <<"Received empty code on callback URL ">> \o lastUrl
    /\ exitCode = 1

\* C7: once a navigation to a url starting with the callback url has been
\* handled, the window reference is cleared and the closed event changes
\* nothing: nothing more is written and the exit status stays as it was.
C7_CloseAfterCallbackIsNoop ==
  [][ /\ matched' => win' = "null"
      /\ (matched /\ ClosedStep) =>
           (stdout' = stdout /\ stderr' = stderr /\ exitCode' = exitCode) ]_vars

C7_Witness ==
  /\ matched /\ phase = "exited" /\ win = "null"
  /\ stdout = << <<"abc">> >> /\ stderr = <<>> /\ exitCode = 0

\* C8: a closed event that comes before any navigation to a url starting with
\* the callback url reports 'User terminated the browser without
\* authenticating' and exits with status 1, after any number of other
\* navigation events.
C8_CloseBeforeCallbackFails ==
  [][ (~matched /\ ClosedStep) =>
        /\ stderr' = Append(stderr, UserTerminated)
        /\ stdout' = stdout
        /\ exitCode' = 1
        /\ phase' = "exited" ]_vars

C8_Witness ==
  /\ ~matched /\ navs >= 2 /\ phase = "exited"
  /\ stderr = <<UserTerminated>> /\ stdout = <<>> /\ exitCode = 1

(***************************************************************************)
(* The failure response                                                     *)
(***************************************************************************)
\* the one failure response of a method and environment, written out
C11_Headers(cache) ==
  [h \in HeaderNames |->
     CASE h = "Content-Type"                  -> <<"text/plain">>
       [] h = "Access-Control-Allow-Origin"   -> <<"https://aio-login.adobeioruntime.net">>
       [] h = "Access-Control-Request-Method" -> <<"*">>
       [] h = "Access-Control-Allow-Methods"  -> <<"OPTIONS, POST">>
       [] h = "Access-Control-Allow-Headers"  -> <<"*">>
       [] OTHER                               -> cache]

C11_ErrorUrl == C4_BaseUrl \o <<"/error?message=", "An error occurred in the cli.">>

C11_GenericFailure ==
  IF request.method = "GET"
  THEN [headers    |-> C11_Headers(<<"private, no-cache">>),
        statusCode |-> 400,
        head       |-> [status |-> 302, Location |-> C11_ErrorUrl],
        body       |-> <<>>]
  ELSE [headers    |-> C11_Headers(<<>>),
        statusCode |-> 400,
        head       |-> [status |-> 0, Location |-> <<>>],
        body       |-> <<"{", "\"protocol_version\"", ":", "2", ",", "\"redirect\"", ":", "\"">>
                         \o C11_ErrorUrl
                         \o <<"\"", ",", "\"error\"", ":", "true", ",", "\"message\"", ":",
                              "\"", "An error occurred in the cli.", "\"", "}">>]

\* C11 as stated: every request that does not end in Success is answered with
\* the same response, fixed by the method and the environment alone, whose
\* only message is 'An error occurred in the cli.'
C11_Original ==
  (HandlerDone /\ promise.status # "resolved") => response = C11_GenericFailure

\* what holds of the code: a failure response that is sent is that one response
C11_SentFailureIsGeneric ==
  (HandlerDone /\ promise.status # "resolved" /\ CountOf(calls, "end") > 0) =>
    response = C11_GenericFailure

\* C12: whenever a handler has ended the response, cors was called on it
\* before the end, and Access-Control-Allow-Origin is the origin of the base
\* URL of the environment (prod when env is omitted), never the wildcard.
C12_Origin ==
  IF env = "stage"
  THEN <<"https://aio-login.adobeioruntime.net">>   \* origin of .../applogin-stage
  ELSE <<"https://aio-login.adobeioruntime.net">>   \* origin of .../applogin

C12_CorsBeforeEnd ==
  /\ \A i \in 1..Len(calls) :
       calls[i] = "end" => \E j \in 1..(i - 1) : calls[j] = "cors"
  /\ CountOf(calls, "end") > 0 =>
       /\ response.headers["Access-Control-Allow-Origin"] = C12_Origin
       /\ response.headers["Access-Control-Allow-Origin"] # <<"*">>
       /\ response.headers["Content-Type"] = <<"text/plain">>
       /\ response.headers["Access-Control-Allow-Methods"] = <<"OPTIONS, POST">>

C12_Witness ==
  /\ pc = "done" /\ request.method = "PUT" /\ env = "omitted"
  /\ CountOf(calls, "end") = 1
  /\ response.headers["Access-Control-Allow-Origin"] = <<"https://aio-login.adobeioruntime.net">>

\* C13: when the authUrl or the callbackUrl argument is missing, the process
\* writes the one missing-argument message to standard error and exits with
\* status 1 while the module loads: no window is created and nothing else is
\* ever reported.
C13_MissingArgument == Len(argv) < 4

C13_Message ==
  IF Len(argv) < 3 THEN <<"Missing authentication URL">> ELSE <<"Missing callback URL">>

C13_MissingArgumentExits ==
  (C13_MissingArgument /\ phase # "load") =>
     /\ phase = "exited" /\ exitCode = 1
     /\ stderr = <<C13_Message>>
     /\ stdout = <<>>
     /\ win = "null" /\ navs = 0 /\ uncaught = <<>>

C13_Witness ==
  /\ Len(argv) = 3 /\ phase = "exited" /\ exitCode = 1
  /\ stderr = << <<"Missing callback URL">> >> /\ win = "null"

\* C14: handleUnsupportedHttpMethod sets status 405 and ends the response
\* with the text 'Supported HTTP methods are OPTIONS, GET, POST', whatever
\* the url, the body and the env of the request are.
C14_Unsupported == request.method \notin {"OPTIONS", "GET", "POST"}

C14_Always405 ==
  (C14_Unsupported /\ pc = "done") =>
     /\ response.statusCode = 405
     /\ response.body = <<"Supported HTTP methods are OPTIONS, GET, POST">>
     /\ response.headers["Content-Type"] = <<"text/plain">>
     /\ calls = <<"statusCode", "cors", "end">>
     /\ promise = PendingPromise

C14_Witness ==
  /\ request.method = "DELETE" /\ pc = "done"
  /\ CodeTruthy /\ StateIdIs(id)
  /\ request.stream # <<>>
  /\ response.statusCode = 405

\* C15: codeTransform(JSON.stringify(obj), 'access_token') is obj for every
\* JSON value obj, and for every codeType other than the string
\* 'access_token' (absent included) codeTransform(code, codeType) is code.
C15_IsAccessTokenType == ttype.t = "string" /\ ttype.s = <<"access_token">>

C15_RoundTripAndIdentity ==
  tpc = "returned" =>
     /\ (tobj # Undefined /\ C15_IsAccessTokenType) => tresult = [ok |-> TRUE, v |-> tobj]
     /\ (~C15_IsAccessTokenType) => tresult = [ok |-> TRUE, v |-> tcode]

C15_Witness ==
  /\ tpc = "returned" /\ C15_IsAccessTokenType
  /\ tobj = Obj(<< <<<<"abcd">>, Str(<<"zzzz">>)>>,
                   <<<<"id">>, Obj(<< <<<<"id">>, Str(<<"abcd">>)>> >>)>> >>)
  /\ tcode = Str(<<"{", QA, ":", QZ, ",", QId, ":", "{", QId, ":", QA, "}", "}">>)
  /\ tresult.ok /\ tresult.v = tobj

\* C16: a navigation event whose url does not start with the callback URL is
\* ignored: nothing is written, the process does not exit and win is left as
\* it is, also when that url contains code=.
C16_OtherUrlStep == navs' = navs + 1 /\ ~IsPrefix(argv[4], lastUrl')

C16_OtherUrlIgnored ==
  [][C16_OtherUrlStep => UNCHANGED <<stdout, stderr, exitCode, win, phase, uncaught>>]_vars

C16_Witness ==
  /\ navs >= 1 /\ ~matched
  /\ lastUrl = <<"https://ims", "/login", "?", "redirect_uri", "=", "https://cb",
                 "&", "code", "=", "abc">>
  /\ phase = "open" /\ win = "window"
  /\ stdout = <<>> /\ stderr = <<>> /\ exitCode = -1 /\ uncaught = <<>>

\* C17: every request given to handleGET, and every request given to
\* handlePOST whose body has ended, has its response ended exactly once,
\* whatever code, code_type and state are.
C17_Original == HandlerDone => CountOf(calls, "end") = 1

\* C18: in handleGET and handlePOST, whenever the response has been ended
\* with the success response the promise is resolved, whenever it has been
\* ended with the error response the promise is rejected, and a promise that
\* has settled is never settled again.
C18_Ended == request.method \in {"GET", "POST"} /\ CountOf(calls, "end") > 0

C18_SuccessShown ==
  /\ C18_Ended
  /\ response.statusCode # 400
  /\ request.method = "GET" =>
       response.head = [status |-> 302, Location |-> C4_BaseUrl \o <<"/signed-in">>]
  /\ request.method = "POST" => response.statusCode = 200

C18_ErrorShown == C18_Ended /\ response.statusCode = 400

C18_Agree ==
  /\ C18_SuccessShown => promise.status = "resolved"
  /\ C18_ErrorShown => promise.status = "rejected"
  /\ CountOf(calls, "resolve") + CountOf(calls, "reject") <= 1

C18_OutcomesAgree ==
  /\ []C18_Agree
  /\ [][promise.status # "pending" => promise' = promise]_vars

C18_Witness ==
  /\ request.method = "POST" /\ pc = "done"
  /\ C18_ErrorShown /\ CodeTruthy
  /\ promise.status = "rejected" /\ promise.value.n = "Error"

====
